---- MODULE Spec2Model ----
(***************************************************************************)
(* Model of the BuildVu python client (src/BuildVuClient/BuildVu.py):      *)
(* the module-level configuration written by setup() and the upload /      *)
(* poll / download workflow of convert(), run by a small number of         *)
(* threads against a nondeterministic HTTP server and file system.         *)
(*                                                                         *)
(* Python strings are sequences of string tokens (single characters for    *)
(* paths, longer tokens for fixed message texts).  A value that may be     *)
(* None is wrapped: None is <<>> and a value v is <<v>>.                   *)
(***************************************************************************)
EXTENDS Integers, Sequences, FiniteSets, TLC

\* ------------------------------------------------------------------ bounds
MaxTimeout == 1

\* The threads of the process; Main is the one that runs the program.
Threads == {"main", "other"}
Main == "main"

\* ------------------------------------------------------- values and strings
None == <<>>
Some(v) == <<v>>

\* Python truthiness of an optional string: None and '' are both falsy.
Truthy(o) == o # None /\ o[1] # <<>>

\* str() of an optional string, as it appears in a message or a URL.
StrOpt(o) == IF o = None THEN <<"None">> ELSE o[1]

IntStr(n) == <<ToString(n)>>

RECURSIVE LastSlash(_, _)
\* Index of the last '/' of s at or before position i, 0 when there is none.
LastSlash(s, i) ==
    IF i = 0 THEN 0
    ELSE IF s[i] = "/" THEN i ELSE LastSlash(s, i - 1)

\* os.path.basename: everything after the last '/'.
Basename(s) == SubSeq(s, LastSlash(s, Len(s)) + 1, Len(s))

\* The slice s[:-3]: s without its last three elements (empty if shorter).
DropLast3(s) == IF Len(s) <= 3 THEN <<>> ELSE SubSeq(s, 1, Len(s) - 3)

\* ------------------------------------------------------------ input domains
Urls == {<<>>, <<"h">>, <<"g">>}
DefaultTimeoutLength == <<10, 30>>
TimeoutLengths == {DefaultTimeoutLength, <<1, 1>>}
Timeouts == (0 - 1)..MaxTimeout

PdfA == <<"a", ".", "p", "d", "f">>
PdfN == <<"d", "/", "n", ".", "p", "d", "f">>
PsB == <<"b", ".", "p", "s">>
InputPaths == {PdfA, PdfN, PsB}
\* Files present on the local file system.
ExistingFiles == {PdfA, PsB}
OutputDirs == {None, Some(<<"o">>)}

\* ------------------------------------------------------------ JSON and HTTP
\* A member of a JSON object: absent, null, or a string.
Absent == [tag |-> "absent", s |-> <<>>]
Null == [tag |-> "null", s |-> <<>>]
JStr(s) == [tag |-> "str", s |-> s]

NoJson == [uuid |-> Absent, state |-> Absent,
           previewPath |-> Absent, downloadPath |-> Absent]

\* A reply of the HTTP layer: net is "ok" when a response came back,
\* otherwise the transport exception; valid says whether the body parses as
\* JSON; json is the parsed object; content is the raw body of a download and
\* stream says whether the body can be read to its end.
Reply(net, status, valid, json, content, stream) ==
    [net |-> net, status |-> status, valid |-> valid, json |-> json,
     content |-> content, stream |-> stream]

Failure(net) == Reply(net, 0, FALSE, NoJson, <<>>, FALSE)
Status(code) == Reply("ok", code, FALSE, NoJson, <<>>, TRUE)
BadJson == Reply("ok", 200, FALSE, NoJson, <<>>, TRUE)
Json(obj) == Reply("ok", 200, TRUE, obj, <<>>, TRUE)

\* HTTP status codes the server answers with.
Statuses == {200, 304, 404, 500}

\* requests: Response.ok / raise_for_status() accept every status outside
\* 400..599.
StatusOk(code) == ~(code >= 400 /\ code < 600)

UploadReplies ==
    {Failure("ConnectionError"), Failure("Timeout"), Status(500), BadJson,
     Json(NoJson), Json([NoJson EXCEPT !.uuid = Null]),
     Json([NoJson EXCEPT !.uuid = JStr(<<"u1">>)]),
     Json([NoJson EXCEPT !.uuid = JStr(<<"u2">>)])}

Processed == [NoJson EXCEPT !.state = JStr(<<"processed">>)]

PollReplies ==
    {Failure("ConnectionError"), Failure("Timeout"), Status(404), BadJson,
     Json(NoJson),
     Json([NoJson EXCEPT !.state = JStr(<<"processing">>)]),
     Json([NoJson EXCEPT !.state = Null]),
     Json([NoJson EXCEPT !.state = JStr(<<"error">>)]),
     Json(Processed),
     Json([Processed EXCEPT !.previewPath = JStr(<<"p">>)]),
     Json([Processed EXCEPT !.previewPath = JStr(<<"p">>),
                            !.downloadPath = Null]),
     Json([Processed EXCEPT !.previewPath = JStr(<<"p">>),
                            !.downloadPath = JStr(<<"z">>)]),
     Json([Processed EXCEPT !.previewPath = JStr(<<"q">>),
                            !.downloadPath = JStr(<<"z">>)])}

\* A body of n bytes.
Bytes(n) == [i \in 1..n |-> i % 256]

\* The archives the server serves: empty, shorter than a chunk, exactly one
\* chunk, one byte more, and two chunks and a byte.
Archives ==
    {<<>>, <<7>>, <<7, 9>>, Bytes(1024), Bytes(1025), Bytes(2049)}

DownloadReplies ==
    {Failure("ConnectionError"), Failure("Timeout")}
    \cup {Status(code) : code \in Statuses \ {200}}
    \cup {Reply("ok", 200, FALSE, NoJson, c, b) : c \in Archives, b \in BOOLEAN}

\* Directories present on the local file system.
ExistingDirs == {<<"o">>}

\* --------------------------------------------------------------- exceptions
Exc(type, msg) == [type |-> type, msg |-> msg]
NoError == Exc("", <<>>)

\* The classes derived from requests.exceptions.RequestException.
RequestExceptions ==
    {"ConnectionError", "Timeout", "HTTPError", "MissingSchema",
     "ChunkedEncodingError"}
IsRequestException(e) == e.type \in RequestExceptions

\* A bare Exception() raised in place of Exception(error).
PlainException_Bare(e) == Exc("Exception", <<>>)

\* Exception(error): a plain Exception whose text is str(error).
PlainException(e) == Exc("Exception", e.msg)

NotSetupMsg ==
    <<"Error: Converter has not been setup. Please call setup() before trying to convert a file.">>
UploadPrefix == <<"Error uploading file: ">>
PollPrefix == <<"Error checking conversion status: ">>
DownloadPrefix == <<"Error downloading conversion output: ">>
ServerUploadMsg ==
    <<"The server ran into an error uploading file, see server logs for details">>
ServerConvertMsg ==
    <<"The server ran into an error converting file, see server logs for details.">>
TimeoutMsg(limit) ==
    <<"Failed: File took longer than ">> \o limit \o <<" seconds to convert">>
StatusMsg(code, target) ==
    <<"Failed: Status code ">> \o IntStr(code) \o <<" for ">> \o target

\* Outcome of a call of a function: a value or a raised exception.
Returns(v) == [raised |-> FALSE, error |-> NoError, value |-> v]
Raises(e) == [raised |-> TRUE, error |-> e, value |-> <<>>]

\* requests.get / requests.post followed by raise_for_status(), for the
\* reply the network gives to a request to the optional URL target.
Request(target, reply) ==
    IF target = None
    THEN Raises(Exc("MissingSchema", <<"Invalid URL 'None'">>))
    ELSE IF reply.net # "ok"
    THEN Raises(Exc(reply.net, <<reply.net, " for url: ">> \o target[1]))
    ELSE IF ~StatusOk(reply.status)
    THEN Raises(Exc("HTTPError",
             IntStr(reply.status) \o <<" Error for url: ">> \o target[1]))
    ELSE Returns(reply)

\* A request leaves the machine only when its URL is usable.
Sent(target) == target # None

\* ------------------------------------------------------------- the helpers
\* An upload that takes the first job identifier whatever the server sent.
upload_FirstId(path, target, reply) ==
    IF path \notin ExistingFiles
    THEN Raises(Exc("OSError", <<"No such file or directory: ">> \o path))
    ELSE LET r == Request(target, reply) IN
         IF r.raised THEN Raises(PlainException(r.error))
         ELSE IF ~reply.valid THEN Raises(Exc("ValueError", <<"json">>))
         ELSE IF reply.json.uuid.tag = "absent"
         THEN Raises(Exc("KeyError", <<"uuid">>))
         ELSE IF reply.json.uuid.tag = "null"
         THEN Raises(Exc("Exception", ServerUploadMsg))
         ELSE Returns(<<"u1">>)

\* __upload: open the input file, post it, read the job identifier.
upload(path, target, reply) ==
    IF path \notin ExistingFiles
    THEN Raises(Exc("OSError", <<"No such file or directory: ">> \o path))
    ELSE LET r == Request(target, reply) IN
         IF r.raised THEN Raises(PlainException(r.error))
         ELSE IF ~reply.valid THEN Raises(Exc("ValueError", <<"json">>))
         ELSE IF reply.json.uuid.tag = "absent"
         THEN Raises(Exc("KeyError", <<"uuid">>))
         ELSE IF reply.json.uuid.tag = "null"
         THEN Raises(Exc("Exception", ServerUploadMsg))
         ELSE Returns(reply.json.uuid.s)

\* The URL of a status poll: the endpoint with the uuid parameter.
PollUrl(target, id) ==
    IF target = None THEN None ELSE Some(target[1] \o <<"?uuid=">> \o id)

\* __poll_status: one status request, returning the response object.
poll_status(id, target, reply) ==
    LET r == Request(PollUrl(target, id), reply) IN
    IF r.raised THEN Raises(PlainException(r.error)) ELSE Returns(reply)

ChunkSize == 1024

RECURSIVE Chunks_SkipByte(_, _)
\* The next chunk started one byte too far.
Chunks_SkipByte(body, n) ==
    IF Len(body) = 0 THEN <<>>
    ELSE IF Len(body) <= n THEN <<body>>
    ELSE <<SubSeq(body, 1, n)>>
             \o Chunks_SkipByte(SubSeq(body, n + 2, Len(body)), n)

RECURSIVE Chunks(_, _)
\* iter_content(chunk_size=n): the body cut into pieces of at most n bytes.
Chunks(body, n) ==
    IF Len(body) = 0 THEN <<>>
    ELSE IF Len(body) <= n THEN <<body>>
    ELSE <<SubSeq(body, 1, n)>> \o Chunks(SubSeq(body, n + 1, Len(body)), n)

RECURSIVE Concat(_)
\* The file content after writing the chunks one after the other.
Concat(chunks) ==
    IF chunks = <<>> THEN <<>> ELSE Head(chunks) \o Concat(Tail(chunks))

\* The chunks written: all of them, or all but the last when the stream
\* breaks before the body ends.
Written(body, whole) ==
    LET cs == Chunks(body, ChunkSize) IN
    IF whole \/ cs = <<>> THEN cs ELSE SubSeq(cs, 1, Len(cs) - 1)

Dirname(path) == SubSeq(path, 1, LastSlash(path, Len(path)) - 1)

NoFile == None
File(path, content, complete) ==
    Some([path |-> path, content |-> content, complete |-> complete])

FileOutcome(raised, error, file) ==
    [raised |-> raised, error |-> error, file |-> file]

\* __download: fetch the archive and stream it to the output file.
download(download_url, path, reply) ==
    LET r == Request(Some(download_url), reply) IN
    IF r.raised THEN FileOutcome(TRUE, PlainException(r.error), NoFile)
    ELSE IF ~StatusOk(reply.status)
    THEN FileOutcome(TRUE,
             Exc("Exception", StatusMsg(reply.status, download_url)), NoFile)
    ELSE IF Dirname(path) \notin ExistingDirs
    THEN FileOutcome(TRUE,
             Exc("OSError", <<"No such file or directory: ">> \o path), NoFile)
    ELSE IF ~reply.stream
    THEN FileOutcome(TRUE, Exc("ChunkedEncodingError", <<"Connection broken">>),
             File(path, Concat(Written(reply.content, FALSE)), FALSE))
    ELSE FileOutcome(FALSE, NoError,
             File(path, Concat(Written(reply.content, TRUE)), TRUE))

\* ------------------------------------------------------------------- state
\* module globals, lines 30-33
VARIABLE base_endpoint
VARIABLE endpoint
VARIABLE request_timeout
VARIABLE convert_timeout
\* where each thread stands
VARIABLE pc
\* arguments of a running setup call
VARIABLE url
VARIABLE timeout_length
VARIABLE conversion_timeout
\* arguments and locals of the last convert call
VARIABLE input_file_path
VARIABLE output_file_path
VARIABLE uuid
VARIABLE count
VARIABLE response
\* how the last convert call of the thread ended
VARIABLE result
\* the requests the call has put on the network
VARIABLE net
\* whether the call has opened its input file
VARIABLE opened
\* the output file the call has written, if any
VARIABLE written
\* the file handles the call has opened and that are still open
VARIABLE open_files
\* the configuration that was in force when the call passed line 71, if it did
VARIABLE checked

config == <<base_endpoint, endpoint, request_timeout, convert_timeout>>
setupArgs == <<url, timeout_length, conversion_timeout>>
frame == <<input_file_path, output_file_path, uuid, count, response>>
effects == <<net, opened, written, open_files, checked>>
vars == <<config, pc, setupArgs, frame, result, effects>>

Running == [kind |-> "running", value |-> <<>>, error |-> NoError]
NoCall == [kind |-> "none", value |-> <<>>, error |-> NoError]
Returned(v) == [kind |-> "return", value |-> v, error |-> NoError]
Raised(e) == [kind |-> "raise", value |-> <<>>, error |-> e]

\* A request on the network: what was asked, where, and what came back.
NetEntry(op, target, id, reply) ==
    [op |-> op, url |-> target, uuid |-> id, reply |-> reply]

Init ==
    /\ base_endpoint = None
    /\ endpoint = None
    /\ request_timeout = None
    /\ convert_timeout = None
    /\ pc = [t \in Threads |-> "idle"]
    /\ url = [t \in Threads |-> <<>>]
    /\ timeout_length = [t \in Threads |-> DefaultTimeoutLength]
    /\ conversion_timeout = [t \in Threads |-> 0]
    /\ input_file_path = [t \in Threads |-> <<>>]
    /\ output_file_path = [t \in Threads |-> None]
    /\ uuid = [t \in Threads |-> <<>>]
    /\ count = [t \in Threads |-> 0]
    /\ response = [t \in Threads |-> NoJson]
    /\ result = [t \in Threads |-> NoCall]
    /\ net = [t \in Threads |-> <<>>]
    /\ opened = [t \in Threads |-> FALSE]
    /\ written = [t \in Threads |-> NoFile]
    /\ open_files = [t \in Threads |-> {}]
    /\ checked = [t \in Threads |-> None]

\* ------------------------------------------------------------------- setup
\* setup is entered and line 51 runs.  The thread has moved on from its
\* last convert call, whose record is dropped.
setup_base_endpoint(t, u, tl, ct) ==
    /\ pc[t] = "idle"
    /\ base_endpoint' = Some(u)
    /\ url' = [url EXCEPT ![t] = u]
    /\ timeout_length' = [timeout_length EXCEPT ![t] = tl]
    /\ conversion_timeout' = [conversion_timeout EXCEPT ![t] = ct]
    /\ pc' = [pc EXCEPT ![t] = "setup52"]
    /\ input_file_path' = [input_file_path EXCEPT ![t] = <<>>]
    /\ output_file_path' = [output_file_path EXCEPT ![t] = None]
    /\ uuid' = [uuid EXCEPT ![t] = <<>>]
    /\ count' = [count EXCEPT ![t] = 0]
    /\ response' = [response EXCEPT ![t] = NoJson]
    /\ result' = [result EXCEPT ![t] = NoCall]
    /\ net' = [net EXCEPT ![t] = <<>>]
    /\ opened' = [opened EXCEPT ![t] = FALSE]
    /\ written' = [written EXCEPT ![t] = NoFile]
    /\ open_files' = [open_files EXCEPT ![t] = {}]
    /\ checked' = [checked EXCEPT ![t] = None]
    /\ UNCHANGED <<endpoint, request_timeout, convert_timeout>>

\* Line 52 for an endpoint that is only set the first time.
setup_endpoint_Once(t) ==
    /\ pc[t] = "setup52"
    /\ endpoint' = IF endpoint = None
                   THEN Some(url[t] \o <<"/buildvu">>) ELSE endpoint
    /\ pc' = [pc EXCEPT ![t] = "setup53"]
    /\ UNCHANGED <<base_endpoint, request_timeout, convert_timeout, setupArgs,
                   frame, result, effects>>

\* Line 52.
setup_endpoint(t) ==
    /\ pc[t] = "setup52"
    /\ endpoint' = Some(url[t] \o <<"/buildvu">>)
    /\ pc' = [pc EXCEPT ![t] = "setup53"]
    /\ UNCHANGED <<base_endpoint, request_timeout, convert_timeout, setupArgs,
                   frame, result, effects>>

\* Line 53.
setup_request_timeout(t) ==
    /\ pc[t] = "setup53"
    /\ request_timeout' = Some(timeout_length[t])
    /\ pc' = [pc EXCEPT ![t] = "setup54"]
    /\ UNCHANGED <<base_endpoint, endpoint, convert_timeout, setupArgs, frame,
                   result, effects>>

\* Line 54 and the return of setup, which drops its arguments.
setup_convert_timeout(t) ==
    /\ pc[t] = "setup54"
    /\ convert_timeout' = Some(conversion_timeout[t])
    /\ url' = [url EXCEPT ![t] = <<>>]
    /\ timeout_length' = [timeout_length EXCEPT ![t] = DefaultTimeoutLength]
    /\ conversion_timeout' = [conversion_timeout EXCEPT ![t] = 0]
    /\ pc' = [pc EXCEPT ![t] = "idle"]
    /\ UNCHANGED <<base_endpoint, endpoint, request_timeout, frame, result,
                   effects>>

\* ----------------------------------------------------------------- convert
\* The check of line 71 left out.
Configured_Unchecked(base) == TRUE

\* Lines 71-73: the call goes on only with a truthy base endpoint.
Configured(base) == Truthy(base)

\* Line 121: open() succeeds for the files that exist.
Opens(path) == path \in ExistingFiles

\* The post made before the input file is opened.
UploadSent_BeforeOpen(path, target) == Sent(target)

\* Lines 121-124: the post is made once the input file is open.
UploadSent(path, target) == Opens(path) /\ Sent(target)

\* Lines 121-134: __upload binds the open file to its local input_file and
\* never closes it, whether it returns or raises.
UploadHandles(path) == IF Opens(path) THEN {"input"} ELSE {}

\* Lines 162-164: the with block closes the output file when it is left,
\* normally or by an exception, so no handle of __download stays open.
DownloadHandles(file) == {}

\* Lines 75-78: the upload with the handler of convert around it.
upload_step(path, target, reply) ==
    LET r == upload(path, target, reply) IN
    IF r.raised /\ IsRequestException(r.error)
    THEN Raises(Exc("Exception", UploadPrefix \o r.error.msg))
    ELSE r

\* The test of line 92 turned into "anything but still processing".
IsProcessed_NotProcessing(resp) == resp.state # JStr(<<"processing">>)

\* Line 92: the state that ends the loop successfully.
IsProcessed(resp) == resp.state = JStr(<<"processed">>)

\* The test of line 95 comparing against another word.
IsError_Failed(resp) == resp.state = JStr(<<"failed">>)

\* Line 95: the state that reports a failed conversion.
IsError(resp) == resp.state = JStr(<<"error">>)

\* The test of line 99 never succeeding.
TimedOut_Never(cnt, limit) == FALSE

\* Line 99: the attempt counter has passed the conversion timeout.
TimedOut(cnt, limit) == cnt > limit

PollOutcome(raised, error, resp, exit) ==
    [raised |-> raised, error |-> error, response |-> resp, exit |-> exit]

\* One turn of a poll loop that tests the attempt counter before the state.
poll_step_TimeoutFirst(id, cnt, target, limit, old, reply) ==
    LET r == poll_status(id, target, reply) IN
    IF r.raised THEN PollOutcome(TRUE, r.error, old, "raise")
    ELSE IF ~reply.valid
    THEN PollOutcome(TRUE, Exc("ValueError", <<"json">>), old, "raise")
    ELSE IF reply.json.state.tag = "absent"
    THEN PollOutcome(TRUE, Exc("KeyError", <<"state">>), reply.json, "raise")
    ELSE IF limit # None /\ TimedOut(cnt, limit[1])
    THEN PollOutcome(TRUE, Exc("Exception", TimeoutMsg(IntStr(limit[1]))),
                     reply.json, "raise")
    ELSE IF IsProcessed(reply.json)
    THEN PollOutcome(FALSE, NoError, reply.json, "break")
    ELSE IF IsError(reply.json)
    THEN PollOutcome(TRUE, Exc("Exception", ServerConvertMsg), reply.json,
                     "raise")
    ELSE PollOutcome(FALSE, NoError, reply.json, "continue")

\* Lines 83-102: one turn of the poll loop, for the attempt counter cnt and
\* the optional conversion timeout limit.  exit is "break" when the loop is
\* left at line 93 and "continue" when line 102 is reached.
poll_step(id, cnt, target, limit, old, reply) ==
    LET r == poll_status(id, target, reply) IN
    IF r.raised /\ IsRequestException(r.error)
    THEN PollOutcome(TRUE, Exc("Exception", PollPrefix \o r.error.msg),
                     old, "raise")
    ELSE IF r.raised THEN PollOutcome(TRUE, r.error, old, "raise")
    ELSE IF ~reply.valid
    THEN PollOutcome(TRUE, Exc("ValueError", <<"json">>), old, "raise")
    ELSE IF reply.json.state.tag = "absent"
    THEN PollOutcome(TRUE, Exc("KeyError", <<"state">>), reply.json, "raise")
    ELSE IF IsProcessed(reply.json)
    THEN PollOutcome(FALSE, NoError, reply.json, "break")
    ELSE IF IsError(reply.json)
    THEN PollOutcome(TRUE, Exc("Exception", ServerConvertMsg), reply.json,
                     "raise")
    ELSE IF limit = None
    THEN PollOutcome(TRUE, Exc("TypeError", <<"'>' not supported">>),
                     reply.json, "raise")
    ELSE IF TimedOut(cnt, limit[1])
    THEN PollOutcome(TRUE, Exc("Exception", TimeoutMsg(IntStr(limit[1]))),
                     reply.json, "raise")
    ELSE PollOutcome(FALSE, NoError, reply.json, "continue")

\* The download URL joined from the preview path instead.
download_url_Preview(base, resp) ==
    IF resp.downloadPath.tag # "str" \/ resp.previewPath.tag # "str"
    THEN Raises(Exc("KeyError", <<"downloadPath">>))
    ELSE Returns(StrOpt(base) \o <<"/">> \o resp.previewPath.s)

\* Line 106: the download URL, or the error of reading the download path.
download_url(base, resp) ==
    IF resp.downloadPath.tag = "absent"
    THEN Raises(Exc("KeyError", <<"downloadPath">>))
    ELSE IF resp.downloadPath.tag = "null"
    THEN Raises(Exc("TypeError", <<"must be str, not NoneType">>))
    ELSE Returns(StrOpt(base) \o <<"/">> \o resp.downloadPath.s)

\* Line 107: the local file the archive is written to.
output_path(dir, path) ==
    dir \o <<"/">> \o Basename(DropLast3(path)) \o <<"z", "i", "p">>

\* The handler of line 111 swallowing the error instead of raising.
download_step_Swallow(base, resp, dir, path, reply) ==
    LET u == download_url(base, resp) IN
    IF u.raised THEN FileOutcome(TRUE, u.error, NoFile)
    ELSE LET d == download(u.value, output_path(dir, path), reply) IN
         IF d.raised /\ IsRequestException(d.error)
         THEN FileOutcome(FALSE, NoError, d.file)
         ELSE d

\* Lines 106-112: the download with the handler of convert around it.
download_step(base, resp, dir, path, reply) ==
    LET u == download_url(base, resp) IN
    IF u.raised THEN FileOutcome(TRUE, u.error, NoFile)
    ELSE LET d == download(u.value, output_path(dir, path), reply) IN
         IF d.raised /\ IsRequestException(d.error)
         THEN FileOutcome(TRUE,
                  Exc("Exception", DownloadPrefix \o d.error.msg), d.file)
         ELSE d

\* The preview URL joined from the download path instead.
preview_url_Download(base, resp) ==
    IF resp.previewPath.tag # "str" \/ resp.downloadPath.tag # "str"
    THEN Raises(Exc("KeyError", <<"previewPath">>))
    ELSE Returns(StrOpt(base) \o <<"/">> \o resp.downloadPath.s)

\* Line 114: the preview URL, or the error of reading the preview path.
preview_url(base, resp) ==
    IF resp.previewPath.tag = "absent"
    THEN Raises(Exc("KeyError", <<"previewPath">>))
    ELSE IF resp.previewPath.tag = "null"
    THEN Raises(Exc("TypeError", <<"must be str, not NoneType">>))
    ELSE Returns(StrOpt(base) \o <<"/">> \o resp.previewPath.s)

\* convert is called and the configuration check of line 71 runs.
convert(t, path, dir) ==
    /\ pc[t] = "idle"
    /\ input_file_path' = [input_file_path EXCEPT ![t] = path]
    /\ output_file_path' = [output_file_path EXCEPT ![t] = dir]
    /\ uuid' = [uuid EXCEPT ![t] = <<>>]
    /\ count' = [count EXCEPT ![t] = 0]
    /\ response' = [response EXCEPT ![t] = NoJson]
    /\ net' = [net EXCEPT ![t] = <<>>]
    /\ opened' = [opened EXCEPT ![t] = FALSE]
    /\ written' = [written EXCEPT ![t] = NoFile]
    /\ open_files' = [open_files EXCEPT ![t] = {}]
    /\ IF Configured(base_endpoint)
       THEN /\ pc' = [pc EXCEPT ![t] = "upload"]
            /\ result' = [result EXCEPT ![t] = Running]
            /\ checked' = [checked EXCEPT ![t] = Some(config)]
       ELSE /\ pc' = pc
            /\ checked' = [checked EXCEPT ![t] = None]
            /\ result' = [result EXCEPT ![t] =
                              Raised(Exc("Exception", NotSetupMsg))]
    /\ UNCHANGED <<config, setupArgs>>

\* Lines 75-81: the upload, then the attempt counter is set to zero.
convert_upload(t) ==
    /\ pc[t] = "upload"
    /\ \E reply \in UploadReplies :
         LET r == upload_step(input_file_path[t], endpoint, reply) IN
         /\ opened' = [opened EXCEPT ![t] = Opens(input_file_path[t])]
         /\ open_files' = [open_files EXCEPT ![t] =
                               UploadHandles(input_file_path[t])]
         /\ net' = [net EXCEPT ![t] =
                IF UploadSent(input_file_path[t], endpoint)
                THEN Append(@, NetEntry("upload", endpoint, <<>>, reply)) ELSE @]
         /\ IF r.raised
            THEN /\ result' = [result EXCEPT ![t] = Raised(r.error)]
                 /\ pc' = [pc EXCEPT ![t] = "idle"]
                 /\ uuid' = uuid
            ELSE /\ result' = result
                 /\ pc' = [pc EXCEPT ![t] = "poll"]
                 /\ uuid' = [uuid EXCEPT ![t] = r.value]
    /\ count' = [count EXCEPT ![t] = 0]
    /\ UNCHANGED <<config, setupArgs, input_file_path, output_file_path,
                   response, written, checked>>

\* Lines 83-102 and the test of line 105: one turn of the poll loop.
convert_poll(t) ==
    /\ pc[t] = "poll"
    /\ \E reply \in PollReplies :
         LET o == poll_step(uuid[t], count[t], endpoint, convert_timeout,
                            response[t], reply) IN
         /\ net' = [net EXCEPT ![t] =
                IF Sent(endpoint)
                THEN Append(@, NetEntry("poll", PollUrl(endpoint, uuid[t]),
                                        uuid[t], reply))
                ELSE @]
         /\ response' = [response EXCEPT ![t] = o.response]
         /\ count' = [count EXCEPT ![t] =
                          IF o.exit = "continue" THEN @ + 1 ELSE @]
         /\ result' = [result EXCEPT ![t] =
                           IF o.raised THEN Raised(o.error) ELSE @]
         /\ pc' = [pc EXCEPT ![t] =
                IF o.raised THEN "idle"
                ELSE IF o.exit = "continue" THEN "poll"
                ELSE IF output_file_path[t] # None THEN "download"
                ELSE "return"]
    /\ UNCHANGED <<config, setupArgs, input_file_path, output_file_path, uuid,
                   opened, written, open_files, checked>>

\* Lines 106-112: the optional download.
convert_download(t) ==
    /\ pc[t] = "download"
    /\ \E reply \in DownloadReplies :
         LET u == download_url(base_endpoint, response[t])
             d == download_step(base_endpoint, response[t],
                                output_file_path[t][1], input_file_path[t],
                                reply) IN
         /\ net' = [net EXCEPT ![t] =
                IF u.raised THEN @
                ELSE Append(@, NetEntry("download", Some(u.value), <<>>, reply))]
         /\ written' = [written EXCEPT ![t] = d.file]
         /\ open_files' = [open_files EXCEPT ![t] =
                               @ \cup DownloadHandles(d.file)]
         /\ result' = [result EXCEPT ![t] =
                           IF d.raised THEN Raised(d.error) ELSE @]
         /\ pc' = [pc EXCEPT ![t] = IF d.raised THEN "idle" ELSE "return"]
    /\ UNCHANGED <<config, setupArgs, frame, opened, checked>>

\* Line 114 for a call that kept the base endpoint it was checked with.
convert_return_Snapshot(t) ==
    /\ pc[t] = "return"
    /\ LET p == preview_url(checked[t][1][1], response[t]) IN
       result' = [result EXCEPT ![t] =
                      IF p.raised THEN Raised(p.error) ELSE Returned(p.value)]
    /\ pc' = [pc EXCEPT ![t] = "idle"]
    /\ UNCHANGED <<config, setupArgs, frame, effects>>

\* Line 114: the preview URL is returned.
convert_return(t) ==
    /\ pc[t] = "return"
    /\ LET p == preview_url(base_endpoint, response[t]) IN
       result' = [result EXCEPT ![t] =
                      IF p.raised THEN Raised(p.error) ELSE Returned(p.value)]
    /\ pc' = [pc EXCEPT ![t] = "idle"]
    /\ UNCHANGED <<config, setupArgs, frame, effects>>

\* The interpreter collects the file object that __upload left behind and
\* closes it; nothing in the program says when.
finalize(t) ==
    /\ pc[t] # "upload"
    /\ "input" \in open_files[t]
    /\ open_files' = [open_files EXCEPT ![t] = @ \ {"input"}]
    /\ UNCHANGED <<config, pc, setupArgs, frame, result, net, opened, written,
                   checked>>

\* A step of thread t.
Step(t) ==
        \/ \E u \in Urls, tl \in TimeoutLengths, ct \in Timeouts :
               setup_base_endpoint(t, u, tl, ct)
        \/ setup_endpoint(t)
        \/ setup_request_timeout(t)
        \/ setup_convert_timeout(t)
        \/ \E path \in InputPaths, dir \in OutputDirs : convert(t, path, dir)
        \/ convert_upload(t)
        \/ convert_poll(t)
        \/ convert_download(t)
        \/ convert_return(t)
        \/ finalize(t)

\* The program as the client is meant to be used: one thread that calls
\* setup and convert one after the other, any number of times.
Next == Step(Main)

Spec == Init /\ [][Next]_vars

\* The steps a thread takes inside convert.
ConvertSteps(t) ==
    convert_upload(t) \/ convert_poll(t) \/ convert_download(t)
        \/ convert_return(t)

\* The program set up for one server and the default request timeout, with
\* any conversion timeout.
LiveNext ==
    \/ \E ct \in Timeouts :
           setup_base_endpoint(Main, <<"h">>, DefaultTimeoutLength, ct)
    \/ setup_endpoint(Main)
    \/ setup_request_timeout(Main)
    \/ setup_convert_timeout(Main)
    \/ \E path \in InputPaths, dir \in OutputDirs : convert(Main, path, dir)
    \/ ConvertSteps(Main)
    \/ finalize(Main)

\* That program with the thread that is inside convert going on to its next
\* statement: every request returns or fails (request_timeout), and sleep(1)
\* returns.
LiveSpec == Init /\ [][LiveNext]_vars /\ WF_vars(ConvertSteps(Main))

\* ---------------------------------------------------------------- history
Entries(t, op) == SelectSeq(net[t], LAMBDA e : e.op = op)
Polls(t) == Entries(t, "poll")
Uploads(t) == Entries(t, "upload")
Downloads(t) == Entries(t, "download")
LastPoll(t) == Polls(t)[Len(Polls(t))]

\* Thread t is inside convert, past the configuration check.
InConvert(t) == pc[t] \in {"upload", "poll", "download", "return"}
\* The last convert call of thread t has ended.
Finished(t) == ~InConvert(t) /\ result[t].kind \in {"return", "raise"}
NotConfigured == Raised(Exc("Exception", NotSetupMsg))
ConversionError == Raised(Exc("Exception", ServerConvertMsg))

\* A step of thread t that enters convert.
CallsConvert(t) ==
    /\ pc[t] = "idle"
    /\ pc'[t] \in {"idle", "upload"}
    /\ <<input_file_path[t], output_file_path[t], uuid[t], count[t],
         response[t], result[t], net[t], opened[t], written[t]>>'
       # <<input_file_path[t], output_file_path[t], uuid[t], count[t],
           response[t], result[t], net[t], opened[t], written[t]>>

\* ------------------------------------------------------------------ claims
\* C1: a convert call made while setup has never run (the base endpoint is
\* still None) ends at once with the NotConfigured error, with the input
\* file not opened and no request sent.
C1_NotConfiguredFirst ==
    [][\A t \in Threads :
          (CallsConvert(t) /\ base_endpoint = None)
              => /\ pc'[t] = "idle"
                 /\ result'[t] = NotConfigured
                 /\ net'[t] = <<>>
                 /\ ~opened'[t]]_vars

C1_Witness ==
    /\ base_endpoint = None
    /\ result[Main] = NotConfigured
    /\ input_file_path[Main] = PdfA

\* C2: when convert returns, the value is the base endpoint, '/', and the
\* previewPath of the answer to the last poll, whose state is processed.
C2_PreviewUrl ==
    [][\A t \in Threads :
          (pc[t] = "return" /\ result'[t].kind = "return")
              => /\ Len(Polls(t)) >= 1
                 /\ LastPoll(t).reply.json.state = JStr(<<"processed">>)
                 /\ LastPoll(t).reply.json.previewPath.tag = "str"
                 /\ result'[t].value =
                        base_endpoint[1] \o <<"/">>
                            \o LastPoll(t).reply.json.previewPath.s]_vars

\* The first poll answered processed and the call returned its preview URL.
C2_Witness ==
    /\ result[Main] = Returned(<<"h", "/", "p">>)
    /\ Len(Polls(Main)) = 1
    /\ output_file_path[Main] = None

\* C3: a poll answered with state error is the last request of its call,
\* which has ended with ConversionError: no later poll, no download, no
\* preview URL.
C3_ErrorStops ==
    \A t \in Threads :
        \A i \in 1..Len(net[t]) :
            (/\ net[t][i].op = "poll"
             /\ net[t][i].reply.net = "ok"
             /\ net[t][i].reply.status = 200
             /\ net[t][i].reply.valid
             /\ net[t][i].reply.json.state = JStr(<<"error">>))
                => /\ i = Len(net[t])
                   /\ ~InConvert(t)
                   /\ result[t] = ConversionError
                   /\ written[t] = NoFile

\* The second poll of a call that asked for a download answered error.
C3_Witness ==
    /\ result[Main] = ConversionError
    /\ output_file_path[Main] # None
    /\ Len(Polls(Main)) = 2
    /\ Downloads(Main) = <<>>

\* ConversionTimeout carrying the limit T.
ConversionTimeout(T) == Raised(Exc("Exception", TimeoutMsg(IntStr(T))))

HasPrefix(msg, prefix) ==
    Len(msg) >= Len(prefix) /\ SubSeq(msg, 1, Len(prefix)) = prefix

\* msg has part as a contiguous piece.
Contains(msg, part) ==
    \E i \in 1..(Len(msg) - Len(part) + 1) :
        SubSeq(msg, i, i + Len(part) - 1) = part

\* The request did not bring back a 2xx response.
TransportFailure(reply) ==
    reply.net # "ok" \/ reply.status < 200 \/ reply.status > 299

\* C4: a call that ends with ConversionTimeout for a limit T >= 0 has made
\* between T-1 and T+1 polls.
C4_PollsWithinOne ==
    \A t \in Threads : \A T \in 0..MaxTimeout :
        (Finished(t) /\ result[t] = ConversionTimeout(T))
            => /\ Len(Polls(t)) >= T - 1
               /\ Len(Polls(t)) <= T + 1

\* C5 as stated: once polls have been made and the loop is over, the last
\* poll was answered processed, or the call ended with ConversionError or
\* with ConversionTimeout.
C5_OnlyThreeExits ==
    \A t \in Threads :
        (Len(Polls(t)) >= 1 /\ pc[t] # "poll")
            => \/ LastPoll(t).reply.json.state = JStr(<<"processed">>)
               \/ result[t] = ConversionError
               \/ \E T \in Timeouts : result[t] = ConversionTimeout(T)

\* The poll made by a step of thread t came back with a usable answer.
Answered(t) ==
    /\ Len(net'[t]) = Len(net[t]) + 1
    /\ net'[t][Len(net'[t])].op = "poll"
    /\ net'[t][Len(net'[t])].reply.net = "ok"
    /\ net'[t][Len(net'[t])].reply.status < 400
    /\ net'[t][Len(net'[t])].reply.valid
    /\ net'[t][Len(net'[t])].reply.json.state.tag # "absent"
Answer(t) == net'[t][Len(net'[t])].reply.json

\* C5 (amended): a step that leaves the poll loop does so because the poll
\* was answered processed (the call goes on), or answered error
\* (ConversionError), or answered anything else with the attempt counter
\* above the conversion timeout (ConversionTimeout), or because the poll
\* turn itself raised: the request failed, or the body was not a JSON
\* object with a state, or the timeout could not be compared.
C5_FourExits ==
    [][\A t \in Threads :
          (pc[t] = "poll" /\ pc'[t] # "poll")
              => \/ /\ Answered(t)
                    /\ Answer(t).state = JStr(<<"processed">>)
                    /\ pc'[t] \in {"download", "return"}
                    /\ response'[t] = Answer(t)
                 \/ /\ Answered(t)
                    /\ Answer(t).state = JStr(<<"error">>)
                    /\ pc'[t] = "idle"
                    /\ result'[t] = ConversionError
                 \/ /\ Answered(t)
                    /\ Answer(t).state # JStr(<<"processed">>)
                    /\ Answer(t).state # JStr(<<"error">>)
                    /\ convert_timeout # None
                    /\ count[t] > convert_timeout[1]
                    /\ pc'[t] = "idle"
                    /\ result'[t] = ConversionTimeout(convert_timeout[1])
                 \/ /\ ~Answered(t) \/ convert_timeout = None
                    /\ pc'[t] = "idle"
                    /\ result'[t].kind = "raise"
                    /\ result'[t].error.type
                           \in {"Exception", "ValueError", "KeyError",
                                "TypeError"}
                    /\ result'[t] # ConversionError
                    /\ \A T \in Timeouts : result'[t] # ConversionTimeout(T)]_vars

\* A second poll failed in transport and ended the call.
C5_Witness ==
    /\ Len(Polls(Main)) = 2
    /\ LastPoll(Main).reply.net = "Timeout"
    /\ Finished(Main)
    /\ result[Main].kind = "raise"

\* The upload of thread t's call came back with a job identifier.
UploadOk(t) ==
    /\ Len(Uploads(t)) = 1
    /\ Uploads(t)[1].reply.net = "ok"
    /\ Uploads(t)[1].reply.status < 400
    /\ Uploads(t)[1].reply.valid
    /\ Uploads(t)[1].reply.json.uuid.tag = "str"

\* The download of thread t's call wrote the whole archive.
DownloadOk(t) ==
    /\ Len(Downloads(t)) = 1
    /\ Downloads(t)[1].reply.net = "ok"
    /\ Downloads(t)[1].reply.status < 400
    /\ Downloads(t)[1].reply.stream
    /\ written[t] # NoFile
    /\ written[t][1].complete
    /\ written[t][1].content = Downloads(t)[1].reply.content

\* C6: a finished call has either returned a preview URL, after a good
\* upload, a poll answered processed and, if an output directory was given,
\* a complete download; or it has raised an error and produced no value.
C6_NoPartialSuccess ==
    \A t \in Threads :
        Finished(t)
            => \/ /\ result[t].kind = "return"
                  /\ UploadOk(t)
                  /\ Len(Polls(t)) >= 1
                  /\ LastPoll(t).reply.json.state = JStr(<<"processed">>)
                  /\ output_file_path[t] # None => DownloadOk(t)
                  /\ output_file_path[t] = None
                         => Downloads(t) = <<>> /\ written[t] = NoFile
               \/ /\ result[t].kind = "raise"
                  /\ result[t].value = <<>>
                  /\ result[t].error # NoError

\* The conversion was processed, then the download broke off in mid-stream
\* and the call raised.
C6_Witness ==
    /\ Finished(Main)
    /\ result[Main].kind = "raise"
    /\ Len(Polls(Main)) >= 1
    /\ LastPoll(Main).reply.json.state = JStr(<<"processed">>)
    /\ Len(Downloads(Main)) = 1
    /\ Downloads(Main)[1].reply.net = "ok"
    /\ ~Downloads(Main)[1].reply.stream
    /\ written[Main] # NoFile

\* C7: an upload that fails in transport ends the call with the error of
\* convert's upload step, 'Error uploading file: ' and the cause, and no
\* poll is made.
C7_UploadErrorWrapped ==
    \A t \in Threads :
        (Len(Uploads(t)) = 1 /\ TransportFailure(Uploads(t)[1].reply))
            => /\ Finished(t)
               /\ result[t].kind = "raise"
               /\ result[t].error.type = "Exception"
               /\ HasPrefix(result[t].error.msg, UploadPrefix)
               /\ Polls(t) = <<>>

\* C8: an upload answered without a job identifier, or with a null one, ends
\* the call with the server-log error, and no poll is made.
C8_MissingIdIsServerError ==
    \A t \in Threads :
        (/\ Len(Uploads(t)) = 1
         /\ ~TransportFailure(Uploads(t)[1].reply)
         /\ Uploads(t)[1].reply.valid
         /\ Uploads(t)[1].reply.json.uuid.tag \in {"absent", "null"})
            => /\ Finished(t)
               /\ result[t] = Raised(Exc("Exception", ServerUploadMsg))
               /\ Polls(t) = <<>>

\* C9: a poll that fails in transport is the last request of its call, which
\* has ended with the error of convert's poll step, 'Error checking
\* conversion status: ' and the cause.
C9_PollErrorWrapped ==
    \A t \in Threads :
        \A i \in 1..Len(net[t]) :
            (net[t][i].op = "poll" /\ TransportFailure(net[t][i].reply))
                => /\ i = Len(net[t])
                   /\ Finished(t)
                   /\ result[t].kind = "raise"
                   /\ result[t].error.type = "Exception"
                   /\ HasPrefix(result[t].error.msg, PollPrefix)

\* C10: a download answered with an error status (4xx or 5xx) ends the call
\* with an error whose text carries the status code and the download URL,
\* and no output file is written.
C10_DownloadStatusError ==
    \A t \in Threads :
        \A i \in 1..Len(net[t]) :
            (/\ net[t][i].op = "download"
             /\ net[t][i].reply.net = "ok"
             /\ net[t][i].reply.status >= 400)
                => /\ output_file_path[t] # None
                   /\ i = Len(net[t])
                   /\ Finished(t)
                   /\ result[t].kind = "raise"
                   /\ Contains(result[t].error.msg,
                               IntStr(net[t][i].reply.status))
                   /\ Contains(result[t].error.msg, net[t][i].url[1])
                   /\ \E u \in Urls :
                          net[t][i].url[1] =
                              u \o <<"/">>
                                \o LastPoll(t).reply.json.downloadPath.s
                   /\ written[t] = NoFile

\* The server answered the download with 404.
C10_Witness ==
    /\ Len(Downloads(Main)) = 1
    /\ Downloads(Main)[1].reply.net = "ok"
    /\ Downloads(Main)[1].reply.status = 404
    /\ Finished(Main)
\* C11: a call that passed the configuration check with an input path that
\* names no existing file has ended with a file-system error, without any
\* upload, poll or download request and without an output file.
C11_MissingFileFirst ==
    \A t \in Threads :
        (/\ input_file_path[t] \notin ExistingFiles
         /\ result[t].kind # "none"
         /\ result[t] # NotConfigured
         /\ pc[t] # "upload")
            => /\ Finished(t)
               /\ result[t].kind = "raise"
               /\ result[t].error.type = "OSError"
               /\ net[t] = <<>>
               /\ ~opened[t]
               /\ written[t] = NoFile

\* A configured call for the missing file d/n.pdf has ended.
C11_Witness ==
    /\ Finished(Main)
    /\ input_file_path[Main] = PdfN
    /\ base_endpoint # None
    /\ result[Main].error.type = "OSError"
\* C12: when a convert call has ended, by return or by any error, no file
\* handle that it opened is still open.
C12_HandlesClosed ==
    \A t \in Threads : Finished(t) => open_files[t] = {}
\* C13: an output file that was written to the end holds exactly the bytes
\* the server sent for the download, in order; and a call that was given an
\* output directory and returned has written such a file.
C13_FileIsArchive ==
    \A t \in Threads :
        /\ (written[t] # NoFile /\ written[t][1].complete)
               => /\ Len(Downloads(t)) = 1
                  /\ Downloads(t)[1].reply.net = "ok"
                  /\ written[t][1].content = Downloads(t)[1].reply.content
        /\ (Finished(t) /\ result[t].kind = "return"
                /\ output_file_path[t] # None)
               => written[t] # NoFile /\ written[t][1].complete

\* An archive of two chunks and one byte was written out whole.
C13_Witness ==
    /\ Finished(Main)
    /\ result[Main].kind = "return"
    /\ written[Main] # NoFile
    /\ written[Main][1].complete
    /\ Len(written[Main][1].content) = 2 * ChunkSize + 1
RECURSIVE LastDot(_, _)
\* Index of the last '.' of s at or before position i, 0 when there is none.
LastDot(s, i) ==
    IF i = 0 THEN 0
    ELSE IF s[i] = "." THEN i ELSE LastDot(s, i - 1)

\* A file name with its extension, if it has one, replaced by .zip.
ZipName(name) ==
    LET d == LastDot(name, Len(name)) IN
    (IF d <= 1 THEN name ELSE SubSeq(name, 1, d - 1))
        \o <<".", "z", "i", "p">>

\* C14: the file a call writes is in the output directory and is named as
\* the input file with its extension replaced by .zip.
C14_ZipExtension ==
    \A t \in Threads :
        written[t] # NoFile
            => written[t][1].path =
                   output_file_path[t][1] \o <<"/">>
                       \o ZipName(Basename(input_file_path[t]))
\* The larger of two numbers.
Max(a, b) == IF a >= b THEN a ELSE b

\* C15: every convert call that is under way comes to an end, and it never
\* makes more than T + 2 polls for the conversion timeout T (one poll when
\* T is negative).
C15_Terminates ==
    /\ \A t \in Threads : InConvert(t) ~> ~InConvert(t)
    /\ [](\A t \in Threads :
             Len(Polls(t)) >= 1
                 => /\ convert_timeout # None
                    /\ Len(Polls(t)) <= Max(convert_timeout[1] + 2, 1))

\* A call has ended by ConversionTimeout after the server kept answering
\* processing for all of its T + 2 polls.
C15_Witness ==
    /\ Finished(Main)
    /\ convert_timeout = Some(MaxTimeout)
    /\ result[Main] = ConversionTimeout(MaxTimeout)
    /\ Len(Polls(Main)) = MaxTimeout + 2
\* The last poll of thread t's call was answered processed.
WasProcessed(t) ==
    /\ Len(Polls(t)) >= 1
    /\ LastPoll(t).reply.json.state = JStr(<<"processed">>)

\* C16 as stated: a finished call has issued a download request exactly
\* when it was given an output directory and a poll answered processed.
C16_DownloadIff ==
    \A t \in Threads :
        Finished(t)
            => (Downloads(t) # <<>>
                    <=> (output_file_path[t] # None /\ WasProcessed(t)))

\* C16 (amended): a call issues a download request exactly when it was given
\* an output directory and a poll answered processed with a string
\* downloadPath; it issues it once, as its last request, to the base
\* endpoint, '/', and that downloadPath.  Without an output directory there
\* is no download request and no file.
C16_DownloadWhenPath ==
    \A t \in Threads :
        /\ Len(Downloads(t)) <= 1
        /\ Downloads(t) # <<>>
               => /\ output_file_path[t] # None
                  /\ net[t][Len(net[t])].op = "download"
                  /\ WasProcessed(t)
                  /\ LastPoll(t).reply.json.downloadPath.tag = "str"
                  /\ Downloads(t)[1].url =
                         Some(base_endpoint[1] \o <<"/">>
                                  \o LastPoll(t).reply.json.downloadPath.s)
        /\ (/\ pc[t] \notin {"upload", "poll", "download"}
            /\ output_file_path[t] # None
            /\ WasProcessed(t)
            /\ LastPoll(t).reply.json.downloadPath.tag = "str")
               => Len(Downloads(t)) = 1
        /\ output_file_path[t] = None
               => Downloads(t) = <<>> /\ written[t] = NoFile

\* A download went to h/z after the second poll answered processed.
C16_Witness ==
    /\ Finished(Main)
    /\ Len(Polls(Main)) = 2
    /\ Len(Downloads(Main)) = 1
    /\ Downloads(Main)[1].url = Some(<<"h", "/", "z">>)
    /\ result[Main].kind = "return"
\* The request e came back with a JSON object that has a state.
HasState(e) ==
    /\ e.reply.net = "ok"
    /\ e.reply.status < 400
    /\ e.reply.valid
    /\ e.reply.json.state.tag # "absent"

\* The call of thread t has ended with ConversionTimeout.
HasTimedOut(t) == \E T \in Timeouts : result[t] = ConversionTimeout(T)

\* C19: ConversionTimeout is only raised right after a poll of the call
\* that was answered with a state other than processed and error, so after
\* at least one poll whatever the timeout value; and a poll answered
\* processed is the last poll of its call, which left the loop without
\* ConversionTimeout and without ConversionError, whatever the counter.
C19_TerminalAnswerWins ==
    \A t \in Threads :
        /\ HasTimedOut(t)
               => /\ Len(Polls(t)) >= 1
                  /\ net[t][Len(net[t])].op = "poll"
                  /\ HasState(LastPoll(t))
                  /\ LastPoll(t).reply.json.state # JStr(<<"processed">>)
                  /\ LastPoll(t).reply.json.state # JStr(<<"error">>)
        /\ \A i \in 1..Len(Polls(t)) :
               (/\ HasState(Polls(t)[i])
                /\ Polls(t)[i].reply.json.state = JStr(<<"processed">>))
                   => /\ i = Len(Polls(t))
                      /\ pc[t] # "poll"
                      /\ response[t] = Polls(t)[i].reply.json
                      /\ ~HasTimedOut(t)
                      /\ result[t] # ConversionError

\* The poll made with the counter already above the timeout was answered
\* processed, and the call returned.
C19_Witness ==
    /\ Finished(Main)
    /\ convert_timeout = Some(MaxTimeout)
    /\ Len(Polls(Main)) = MaxTimeout + 2
    /\ LastPoll(Main).reply.json.state = JStr(<<"processed">>)
    /\ result[Main].kind = "return"

\* A call with a negative timeout timed out after its one poll.
C19_NegativeTimeout ==
    /\ Finished(Main)
    /\ convert_timeout = Some(0 - 1)
    /\ HasTimedOut(Main)
    /\ Len(Polls(Main)) = 1
\* Thread t is inside setup, between line 51 and line 54.
InSetup(t) == pc[t] \in {"setup52", "setup53", "setup54"}

\* The configuration that a call setup(u, tl, ct) leaves.
ConfigOf(u, tl, ct) ==
    <<Some(u), Some(u \o <<"/buildvu">>), Some(tl), Some(ct)>>

\* Nothing is set, or the four values are those of one setup call.
Consistent ==
    \/ config = <<None, None, None, None>>
    \/ \E u \in Urls, tl \in TimeoutLengths, ct \in Timeouts :
           config = ConfigOf(u, tl, ct)

C18_MixedConfiguration ==
    /\ InSetup(Main)
    /\ base_endpoint = Some(<<"g">>)
    /\ endpoint = Some(<<"h", "/buildvu">>)
\* ------------------------------------------------- two threads in convert
\* The state after setup('h', conversion_timeout=ct) has returned.
ParInit ==
    /\ \E ct \in Timeouts :
         /\ base_endpoint = Some(<<"h">>)
         /\ endpoint = Some(<<"h">> \o <<"/buildvu">>)
         /\ request_timeout = Some(DefaultTimeoutLength)
         /\ convert_timeout = Some(ct)
    /\ pc = [t \in Threads |-> "idle"]
    /\ url = [t \in Threads |-> <<>>]
    /\ timeout_length = [t \in Threads |-> DefaultTimeoutLength]
    /\ conversion_timeout = [t \in Threads |-> 0]
    /\ input_file_path = [t \in Threads |-> <<>>]
    /\ output_file_path = [t \in Threads |-> None]
    /\ uuid = [t \in Threads |-> <<>>]
    /\ count = [t \in Threads |-> 0]
    /\ response = [t \in Threads |-> NoJson]
    /\ result = [t \in Threads |-> NoCall]
    /\ net = [t \in Threads |-> <<>>]
    /\ opened = [t \in Threads |-> FALSE]
    /\ written = [t \in Threads |-> NoFile]
    /\ open_files = [t \in Threads |-> {}]
    /\ checked = [t \in Threads |-> None]

\* The answers of a server that hands out two job identifiers.
ParUploadReplies ==
    {Failure("Timeout"),
     Json([NoJson EXCEPT !.uuid = JStr(<<"u1">>)]),
     Json([NoJson EXCEPT !.uuid = JStr(<<"u2">>)])}

ParPollReplies ==
    {Failure("Timeout"),
     Json([NoJson EXCEPT !.state = JStr(<<"processing">>)]),
     Json([NoJson EXCEPT !.state = JStr(<<"error">>)]),
     Json([Processed EXCEPT !.previewPath = JStr(<<"p">>)])}

\* The request that a step of thread t made, if it made one, was answered
\* from the set replies.
AnsweredFrom(t, replies) ==
    net'[t] = net[t] \/ net'[t][Len(net'[t])].reply \in replies

\* A step of thread t that calls convert without an output directory, or
\* goes on with its call.
ParStep(t) ==
    \/ \E path \in {PdfA, PdfN} : convert(t, path, None)
    \/ convert_upload(t) /\ AnsweredFrom(t, ParUploadReplies)
    \/ convert_poll(t) /\ AnsweredFrom(t, ParPollReplies)
    \/ convert_return(t)

\* Two threads that call convert any number of times, their statements
\* interleaved in any order.
ParNext == \E t \in Threads : ParStep(t)

ParSpec == ParInit /\ [][ParNext]_vars
\* Every poll of thread t's call comes after the call's one upload and
\* carries the job identifier that this upload was answered with.
PollsOwnId(t) ==
    \A i \in 1..Len(net[t]) :
        net[t][i].op = "poll"
            => /\ i > 1
               /\ net[t][1].op = "upload"
               /\ Len(Uploads(t)) = 1
               /\ net[t][1].reply.json.uuid = JStr(net[t][i].uuid)
               /\ net[t][i].url = PollUrl(endpoint, net[t][1].reply.json.uuid.s)

\* C17 as stated: every finished convert call has sent exactly one upload,
\* and every poll of a call carries the identifier of the call's own upload.
C17_ExactlyOneUpload ==
    \A t \in Threads :
        /\ Finished(t) => Len(Uploads(t)) = 1
        /\ PollsOwnId(t)

\* C17 (amended): a convert call sends at most one upload, exactly one once
\* it has opened its input file and none when it could not; the upload
\* precedes every poll of the call, and every poll carries the identifier
\* that the call's own upload returned, also when the calls of two threads
\* are interleaved.
C17_OwnIdentifier ==
    \A t \in Threads :
        /\ Len(Uploads(t)) <= 1
        /\ opened[t] => Len(Uploads(t)) = 1
        /\ (Finished(t) /\ ~opened[t]) => net[t] = <<>>
        /\ pc[t] \in {"poll", "return"}
               => /\ Len(Uploads(t)) = 1
                  /\ Uploads(t)[1].reply.json.uuid = JStr(uuid[t])
        /\ PollsOwnId(t)

\* Two calls are in their poll loops at the same time, each two polls in,
\* with different job identifiers.
C17_Witness ==
    /\ pc[Main] = "poll"
    /\ pc["other"] = "poll"
    /\ uuid[Main] = <<"u1">>
    /\ uuid["other"] = <<"u2">>
    /\ Len(Polls(Main)) = 2
    /\ Len(Polls("other")) = 2
\* --------------------------------------------- setup while convert runs
\* The answers of a server that accepts every file and converts it at the
\* first or at a later poll.
RaceUploadReplies == {Json([NoJson EXCEPT !.uuid = JStr(<<"u1">>)])}

RacePollReplies ==
    {Json([NoJson EXCEPT !.state = JStr(<<"processing">>)]),
     Json([Processed EXCEPT !.previewPath = JStr(<<"p">>),
                            !.downloadPath = JStr(<<"z">>)])}

RaceDownloadReplies == {Reply("ok", 200, FALSE, NoJson, <<7>>, TRUE)}

\* The main thread converts a.pdf, with or without an output directory.
RaceConvert(t) ==
    \/ \E dir \in OutputDirs : convert(t, PdfA, dir)
    \/ convert_upload(t) /\ AnsweredFrom(t, RaceUploadReplies)
    \/ convert_poll(t) /\ AnsweredFrom(t, RacePollReplies)
    \/ convert_download(t) /\ AnsweredFrom(t, RaceDownloadReplies)
    \/ convert_return(t)

\* Another thread calls setup for one of two servers.
RaceSetup(t) ==
    \/ \E u \in {<<"h">>, <<"g">>}, ct \in {0, MaxTimeout} :
           setup_base_endpoint(t, u, DefaultTimeoutLength, ct)
    \/ setup_endpoint(t)
    \/ setup_request_timeout(t)
    \/ setup_convert_timeout(t)

\* The statements of the two threads interleave in any order.
RaceNext == RaceConvert(Main) \/ RaceSetup("other")

RaceSpec == Init /\ [][RaceNext]_vars
\* Every request of thread t's call, and what the call returned or timed
\* out with, comes from the configuration c.
DerivedFrom(t, c) ==
    /\ \A i \in 1..Len(net[t]) :
           /\ net[t][i].op = "upload" => net[t][i].url = c[2]
           /\ net[t][i].op = "poll"
                  => net[t][i].url = PollUrl(c[2], net[t][i].uuid)
           /\ net[t][i].op = "download"
                  => net[t][i].url =
                         Some(StrOpt(c[1]) \o <<"/">>
                                  \o LastPoll(t).reply.json.downloadPath.s)
    /\ result[t].kind = "return"
           => result[t].value =
                  StrOpt(c[1]) \o <<"/">> \o response[t].previewPath.s
    /\ HasTimedOut(t)
           => c[4] # None /\ result[t] = ConversionTimeout(c[4][1])

\* C20 as stated: everything a convert call sends and returns comes from
\* the configuration that was in force when the call passed line 71.
C20_OneConfiguration ==
    \A t \in Threads : checked[t] # None => DerivedFrom(t, checked[t][1])

\* C20 (amended): every request of a convert call, the preview URL and the
\* timeout come from the configuration in force at the moment the statement
\* runs; they all come from the configuration of the check as long as no
\* step of setup changes the configuration during the call.
C20_ConfigurationAtUse ==
    [][\A t \in Threads :
          /\ Len(net'[t]) = Len(net[t]) + 1
                 => LET e == net'[t][Len(net'[t])] IN
                    /\ e.op = "upload" => e.url = endpoint
                    /\ e.op = "poll" => e.url = PollUrl(endpoint, uuid[t])
                    /\ e.op = "download"
                           => e.url = Some(StrOpt(base_endpoint) \o <<"/">>
                                               \o response[t].downloadPath.s)
          /\ (result'[t] # result[t] /\ result'[t].kind = "return")
                 => result'[t].value =
                        StrOpt(base_endpoint) \o <<"/">>
                            \o response[t].previewPath.s
          /\ (result'[t] # result[t] /\ HasTimedOut(t)')
                 => /\ result'[t] = ConversionTimeout(convert_timeout[1])
                    /\ count[t] > convert_timeout[1]
          /\ (/\ config' = config
              /\ checked'[t] = Some(config)
              /\ checked[t] = checked'[t] => DerivedFrom(t, config))
                 => DerivedFrom(t, config)']_vars

\* A call that was checked under the server h uploaded to h and, after a
\* setup for g on the other thread, returned a preview URL on g.
C20_Witness ==
    /\ Finished(Main)
    /\ checked[Main] # None
    /\ checked[Main][1][1] = Some(<<"h">>)
    /\ Len(Uploads(Main)) = 1
    /\ Uploads(Main)[1].url = Some(<<"h", "/buildvu">>)
    /\ result[Main] = Returned(<<"g", "/", "p">>)
====
